---- MODULE Spec2Model ----
(***************************************************************************)
(* Model of src/app.py: the context-key lifecycle of the chatbot service.  *)
(*                                                                         *)
(*   extracted_texts   the process-global dict  key -> extracted text      *)
(*   users             the api_keys column of every User row (JSON text)   *)
(*   storage           the counters of the Flask-Limiter memory storage    *)
(*   now               the clock the limiter reads, in seconds             *)
(*   req               one record per server thread: the request it is     *)
(*                     serving and the handler's local variables           *)
(*   out               the response sent by the last step, if any          *)
(*   nreq, env         the requests served so far; the server's threads    *)
(*                     and the traffic it is put under                     *)
(*                                                                         *)
(* History, read by the properties only (putText also stands for the       *)
(* values uuid4 has returned):                                             *)
(*   putText           every key ever put in the dict, with its text       *)
(*   issued            key -> account, for every ingestion answered 200    *)
(*   deleted           key -> account, for every deletion answered 200     *)
(*   everDenied        the (address, route) pairs that were ever rejected  *)
(*                                                                         *)
(* Every handler is cut at the points where it touches shared state (the   *)
(* limiter storage, the dict, a database read, a database commit), so the  *)
(* interleavings of a threaded server are the interleavings of the model.  *)
(***************************************************************************)
EXTENDS Integers, Sequences, FiniteSets, TLC

VARIABLES storage, now, extracted_texts, users, putText, issued, deleted,
          everDenied, req, out, nreq, env

vars == <<storage, now, extracted_texts, users, putText, issued, deleted,
          everDenied, req, out, nreq, env>>

----------------------------------------------------------------------------
(* Bounds of the model *)

\* requests served in one behaviour of the threaded server
MaxRequests == 4
\* requests served in one behaviour of the single-threaded server
MaxBurst == 7
\* clock steps in one behaviour, and the seconds one step advances the clock
MaxTicks == 2
TickSeconds == 30

\* server threads
Workers == {"w1", "w2"}
LessThread(v, w) == v = "w1" /\ w = "w2"
\* remote addresses (the limiter's client identity)
Addrs == {"10.0.0.1"}
\* registered accounts (User.id); NoSession is a request without session['user_id']
UserIds == {1, 2}
NoSession == 0
Sessions == UserIds \cup {NoSession}
\* values uuid4 can return, already in the f"user_{hex}" form
KeySpace == {"user_a1", "user_b2"}
\* request bodies
Urls == {"", "http://a", "http://down"}
ApiKeyArgs == KeySpace \cup {""}
Inputs == {"", "hi"}

----------------------------------------------------------------------------
(* Program constants *)

PerMinute == 5
MinuteSeconds == 60
PerHour == 100
HourSeconds == 3600
PerDay == 200
DaySeconds == 86400

Placeholder == "No context available for this API key."
Template == "You are a helpful AI assistant trained on the following website content: "

Protected == {"process_url", "chat"}
Endpoints == {"process_url", "chat", "get_user_api_keys", "delete_api_key"}
Windows == {"minute", "hour", "day"}

RouteLimit == [name |-> "minute", amount |-> PerMinute, seconds |-> MinuteSeconds]

\* default_limits=["200 per day", "100 per hour"], in the order the limiter
\* evaluates them (shortest window first)
DefaultLimits ==
    << [name |-> "hour", amount |-> PerHour, seconds |-> HourSeconds],
       [name |-> "day", amount |-> PerDay, seconds |-> DaySeconds] >>

\* The limits of a route: a route decorated with @limiter.limit carries the
\* decorated limit, which replaces the default limits (Flask-Limiter's
\* override_defaults, on unless the decorator says otherwise); every other
\* route carries the default limits.
LimitsOf(ep) == IF ep \in Protected THEN <<RouteLimit>> ELSE DefaultLimits

----------------------------------------------------------------------------
(* Rate limiter: fixed windows in the limiter's memory storage *)

NoEntry == [count |-> 0, expiry |-> 0]

\* storage.incr: an absent counter starts at 1 and expires `seconds` after
\* this first hit; a live counter is incremented and keeps its expiry.
Incr(e, seconds, t) ==
    IF e.count = 0
    THEN [count |-> 1, expiry |-> t + seconds]
    ELSE [count |-> e.count + 1, expiry |-> e.expiry]

\* a limiter that lets one call more through
AllowedMut(count, amount) == count <= amount + 1
\* FixedWindowRateLimiter.hit: the hit is within the limit
Allowed(count, amount) == count <= amount

\* The limits of the route are hit in order; the first one exceeded rejects
\* the request and the remaining ones are not hit.
RECURSIVE Evaluate(_, _, _, _, _)
Evaluate(st, addr, ep, lims, t) ==
    IF lims = <<>>
    THEN [storage |-> st, allowed |-> TRUE]
    ELSE LET lim == Head(lims)
             k == <<addr, ep, lim.name>>
             e == Incr(st[k], lim.seconds, t)
             st2 == [st EXCEPT ![k] = e]
         IN  IF Allowed(e.count, lim.amount)
             THEN Evaluate(st2, addr, ep, Tail(lims), t)
             ELSE [storage |-> st2, allowed |-> FALSE]

\* a storage that keeps a counter through the second its window ends
ExpireMut(st, t) ==
    [k \in DOMAIN st |-> IF st[k].count > 0 /\ st[k].expiry < t THEN NoEntry ELSE st[k]]
\* The memory storage drops the counters whose expiry has passed before it
\* serves an access.
Expire(st, t) ==
    [k \in DOMAIN st |-> IF st[k].count > 0 /\ st[k].expiry <= t THEN NoEntry ELSE st[k]]

----------------------------------------------------------------------------
(* json.dumps / json.loads of a list of strings, as a sequence of tokens *)

json_dumps(l) ==
    <<"[">>
    \o [i \in 1..(IF l = <<>> THEN 0 ELSE 2 * Len(l) - 1) |->
          IF i % 2 = 1 THEN l[(i + 1) \div 2] ELSE ","]
    \o <<"]">>

json_loads(s) ==
    SelectSeq(SubSeq(s, 2, Len(s) - 1), LAMBDA tok : tok # ",")

\* api_key in api_keys
InList(l, x) == \E i \in 1..Len(l) : l[i] = x

\* list.remove: drops the first occurrence (line 331 calls it only for a
\* value that is in the list)
ListRemove(l, x) ==
    IF ~InList(l, x) THEN l
    ELSE LET i == CHOOSE j \in 1..Len(l) : l[j] = x /\ \A m \in 1..(j - 1) : l[m] # x
         IN  SubSeq(l, 1, i - 1) \o SubSeq(l, i + 1, Len(l))

SeqToSet(l) == {l[i] : i \in 1..Len(l)}

----------------------------------------------------------------------------
(* The dict extracted_texts *)

EmptyDict == [k \in {} |-> ""]

\* extracted_texts[api_key] = extracted_text
DictSet(d, k, v) == [x \in DOMAIN d \cup {k} |-> IF x = k THEN v ELSE d[x]]

\* extracted_texts.pop(api_key, None)
DictPop(d, k) == [x \in DOMAIN d \ {k} |-> d[x]]

\* a lookup that never uses the stored text
DictGetMut(d, k, default) == default
\* a lookup without the placeholder
DictGetNoDefault(d, k, default) == IF k \in DOMAIN d THEN d[k] ELSE ""
\* extracted_texts.get(api_key, default)
DictGet(d, k, default) == IF k \in DOMAIN d THEN d[k] ELSE default

----------------------------------------------------------------------------
(* External collaborators *)

\* requests.get + BeautifulSoup: the joined <p> texts of the page; an
\* unreachable host raises.
FetchRaises(url) == url = "http://down"
extract_text_from_url(url) == IF url = "http://a" THEN "text A" ELSE ""

\* the two messages sent to the completion service
Messages(context, user_input) ==
    << [role |-> "system", content |-> <<Template, context>>],
       [role |-> "user", content |-> <<user_input>>] >>

\* the completion service, as the mock that answers with the system prompt
\* it received
Completion(messages) ==
    [choices |-> << [message |-> [content |-> messages[1].content]] >>]

----------------------------------------------------------------------------
(* Requests *)

\* late: the chat request arrived when its key had already been put in the
\* dict; again: the delete request arrived when its account had already been
\* answered 200 for a deletion of the same key
IdleReq ==
    [pc |-> "idle", op |-> "none", sess |-> NoSession, arg |-> "", input |-> "",
     key |-> "", list |-> <<>>, ctx |-> "", late |-> FALSE, again |-> FALSE]

\* the response sent in the last step, if that step ended a request
NoOut == [op |-> "none", sess |-> NoSession, arg |-> "", status |-> 0, body |-> <<>>]

Reply(r, status, body) ==
    [op |-> r.op, sess |-> r.sess, arg |-> r.arg, status |-> status, body |-> body]

InitState ==
    /\ storage = [k \in Addrs \X Endpoints \X Windows |-> NoEntry]
    /\ now = 0
    /\ extracted_texts = EmptyDict
    /\ users = [u \in UserIds |-> json_dumps(<<>>)]
    /\ putText = EmptyDict
    /\ issued = [k \in {} |-> NoSession]
    /\ deleted = [k \in {} |-> NoSession]
    /\ everDenied = {}
    /\ req = [w \in Workers |-> IdleReq]
    /\ out = NoOut
    /\ nreq = 0

\* The threaded server (app.run serves every request in its own thread),
\* under requests to every route that arrive within one tick of the clock.
Init ==
    /\ InitState
    /\ env = [threads |-> Workers, sessions |-> Sessions, endpoints |-> Endpoints,
              budget |-> MaxRequests, ticks |-> 0]

\* The same server run with one thread, under a longer burst of requests to
\* the two rate-limited routes.
InitBurst ==
    /\ InitState
    /\ env = [threads |-> {"w1"}, sessions |-> {NoSession, 1}, endpoints |-> Protected,
              budget |-> MaxBurst, ticks |-> MaxTicks]

\* keys uuid4 can still hand out to the requests that are about to draw one
KeysLeft ==
    Cardinality(KeySpace \ DOMAIN putText)
      - Cardinality({w \in Workers : req[w].pc = "put" /\ ~FetchRaises(req[w].arg)})

\* the response of a request that ended before its body was used
Early(ep, status) == [NoOut EXCEPT !.op = ep, !.status = status]

\* the idle thread that takes the next request
Free(w) ==
    /\ w \in env.threads
    /\ req[w].pc = "idle"
    /\ \A v \in env.threads : req[v].pc = "idle" => ~LessThread(v, w)

\* A request arrives at thread w, `wait` seconds after the previous one (the
\* clock is read nowhere but in the limiter): the limiter hits the route's
\* limits, and a rejected request is answered 429 without the view function
\* being run. An admitted request runs the view function up to its first
\* access to shared state: the session check and the checks of the request
\* body.
Start(w) ==
    /\ Free(w)
    /\ nreq < env.budget
    /\ nreq' = nreq + 1
    /\ \E ep \in env.endpoints, addr \in Addrs, wait \in {0, TickSeconds} :
         LET t == now + wait
             ev == Evaluate(Expire(storage, t), addr, ep, LimitsOf(ep), t)
         IN  /\ t <= env.ticks * TickSeconds
             /\ now' = t
             /\ storage' = ev.storage
             /\ everDenied' = IF ev.allowed THEN everDenied
                              ELSE everDenied \cup {<<addr, ep>>}
             /\ IF ~ev.allowed
                THEN /\ out' = Early(ep, 429)
                     /\ req' = req
                ELSE \E sess \in (IF ep = "chat" THEN {NoSession} ELSE env.sessions),
                        arg \in (CASE ep = "process_url" -> Urls
                                   [] ep = "get_user_api_keys" -> {""}
                                   [] OTHER -> ApiKeyArgs),
                        input \in (IF ep = "chat" THEN Inputs ELSE {""}) :
                       LET r == [IdleReq EXCEPT !.op = ep, !.sess = sess, !.arg = arg,
                                     !.input = input,
                                     !.late = (ep = "chat" /\ arg \in DOMAIN putText),
                                     !.again = /\ ep = "delete_api_key"
                                               /\ arg \in DOMAIN deleted
                                               /\ deleted[arg] = sess]
                           first == CASE ep = "process_url" -> "put"
                                      [] ep = "chat" -> "lookup"
                                      [] ep = "get_user_api_keys" -> "list"
                                      [] OTHER -> "del_read"
                           early ==
                               IF ep # "chat" /\ sess = NoSession THEN 401
                               ELSE IF ep = "chat" /\ (input = "" \/ arg = "") THEN 400
                               ELSE IF ep \in {"process_url", "delete_api_key"} /\ arg = ""
                                    THEN 400
                               ELSE 0
                       IN  IF early # 0
                           THEN /\ out' = Early(ep, early)
                                /\ req' = req
                           ELSE /\ (ep = "process_url" /\ ~FetchRaises(arg))
                                      => KeysLeft > 0
                                /\ out' = NoOut
                                /\ req' = [req EXCEPT ![w] = [r EXCEPT !.pc = first]]
    /\ UNCHANGED <<extracted_texts, users, putText, issued, deleted, env>>

\* db.session.commit(): the row is written, or the commit raises and the row
\* keeps its value
\* a commit whose write survives its failure
CommitRowMut(db, uid, column, ok) == [db EXCEPT ![uid] = column]
CommitRow(db, uid, column, ok) == IF ok THEN [db EXCEPT ![uid] = column] ELSE db

\* process_url, lines 156-158: fetch the page, draw the key, store the text.
\* uuid4 is modelled as never repeating a value it has returned.
Put(w) ==
    /\ req[w].pc = "put"
    /\ IF FetchRaises(req[w].arg)
       THEN /\ req' = [req EXCEPT ![w] = IdleReq]
            /\ out' = Reply(req[w], 500, <<>>)
            /\ UNCHANGED <<extracted_texts, putText>>
       ELSE \E api_key \in KeySpace \ DOMAIN putText :
              LET extracted_text == extract_text_from_url(req[w].arg)
              IN  /\ extracted_texts' = DictSet(extracted_texts, api_key, extracted_text)
                  /\ putText' = DictSet(putText, api_key, extracted_text)
                  /\ req' = [req EXCEPT ![w].pc = "read_user", ![w].key = api_key]
                  /\ out' = NoOut
    /\ UNCHANGED <<storage, now, users, issued, deleted, everDenied, nreq, env>>

\* process_url, lines 161-162: read the row and parse its key list
ReadUser(w) ==
    /\ req[w].pc = "read_user"
    /\ req' = [req EXCEPT ![w].pc = "commit",
                          ![w].list = json_loads(users[req[w].sess])]
    /\ out' = NoOut
    /\ UNCHANGED <<storage, now, extracted_texts, users, putText, issued, deleted,
                   everDenied, nreq, env>>

\* process_url, lines 163-176: append, write the row back, answer
Commit(w) ==
    /\ req[w].pc = "commit"
    /\ \E ok \in BOOLEAN :
         LET api_keys == Append(req[w].list, req[w].key)
         IN  /\ users' = CommitRow(users, req[w].sess, json_dumps(api_keys), ok)
             /\ out' = IF ok THEN Reply(req[w], 200, <<req[w].key>>)
                             ELSE Reply(req[w], 500, <<>>)
             /\ issued' = IF ok THEN DictSet(issued, req[w].key, req[w].sess)
                                ELSE issued
    /\ req' = [req EXCEPT ![w] = IdleReq]
    /\ UNCHANGED <<storage, now, extracted_texts, putText, deleted, everDenied, nreq, env>>

\* chat, line 188: resolve the context
Lookup(w) ==
    /\ req[w].pc = "lookup"
    /\ req' = [req EXCEPT ![w].pc = "call",
                          ![w].ctx = DictGet(extracted_texts, req[w].arg, Placeholder)]
    /\ out' = NoOut
    /\ UNCHANGED <<storage, now, extracted_texts, users, putText, issued, deleted,
                   everDenied, nreq, env>>

\* chat, lines 191-228: build the messages, call the completion service,
\* answer with its text or with the error of the except clause that matches
CallService(w) ==
    /\ req[w].pc = "call"
    /\ \E outcome \in {"ok", "network", "api"} :
         LET messages == Messages(req[w].ctx, req[w].input)
             response == Completion(messages)
         IN  out' = CASE outcome = "ok" ->
                           Reply(req[w], 200, response.choices[1].message.content)
                      [] outcome = "network" -> Reply(req[w], 503, <<>>)
                      [] OTHER -> Reply(req[w], 500, <<>>)
    /\ req' = [req EXCEPT ![w] = IdleReq]
    /\ UNCHANGED <<storage, now, extracted_texts, users, putText, issued, deleted,
                   everDenied, nreq, env>>

\* get_user_api_keys, lines 235-237
ListKeys(w) ==
    /\ req[w].pc = "list"
    /\ out' = Reply(req[w], 200, json_loads(users[req[w].sess]))
    /\ req' = [req EXCEPT ![w] = IdleReq]
    /\ UNCHANGED <<storage, now, extracted_texts, users, putText, issued, deleted,
                   everDenied, nreq, env>>

\* an ownership test against the dict instead of the account's list
OwnsMut(api_keys, api_key, dict) == api_key \in DOMAIN dict
\* delete_api_key, line 330: the key is in the account's list
Owns(api_keys, api_key, dict) == InList(api_keys, api_key)

\* delete_api_key, lines 327-330 and 339-340: read the row, look the key up
DelRead(w) ==
    /\ req[w].pc = "del_read"
    /\ LET api_keys == json_loads(users[req[w].sess])
       IN  IF Owns(api_keys, req[w].arg, extracted_texts)
           THEN /\ req' = [req EXCEPT ![w].pc = "del_commit", ![w].list = api_keys]
                /\ out' = NoOut
           ELSE /\ req' = [req EXCEPT ![w] = IdleReq]
                /\ out' = Reply(req[w], 404, <<>>)
    /\ UNCHANGED <<storage, now, extracted_texts, users, putText, issued, deleted,
                   everDenied, nreq, env>>

\* delete_api_key, lines 331-333: remove the key, write the row back; a commit
\* that raises ends the request with the server's 500
DelCommit(w) ==
    /\ req[w].pc = "del_commit"
    /\ \E ok \in BOOLEAN :
         LET api_keys == ListRemove(req[w].list, req[w].arg)
         IN  /\ users' = CommitRow(users, req[w].sess, json_dumps(api_keys), ok)
             /\ IF ok
                THEN /\ req' = [req EXCEPT ![w].pc = "del_pop", ![w].list = <<>>]
                     /\ out' = NoOut
                ELSE /\ req' = [req EXCEPT ![w] = IdleReq]
                     /\ out' = Reply(req[w], 500, <<>>)
    /\ UNCHANGED <<storage, now, extracted_texts, putText, issued, deleted,
                   everDenied, nreq, env>>

\* delete_api_key, lines 336-338: drop the text, answer 200
DelPop(w) ==
    /\ req[w].pc = "del_pop"
    /\ extracted_texts' = DictPop(extracted_texts, req[w].arg)
    /\ deleted' = DictSet(deleted, req[w].arg, req[w].sess)
    /\ out' = Reply(req[w], 200, <<>>)
    /\ req' = [req EXCEPT ![w] = IdleReq]
    /\ UNCHANGED <<storage, now, users, putText, issued, everDenied, nreq, env>>

Next ==
    \/ \E w \in Workers : Start(w)
    \/ \E w \in Workers : Put(w)
    \/ \E w \in Workers : ReadUser(w)
    \/ \E w \in Workers : Commit(w)
    \/ \E w \in Workers : Lookup(w)
    \/ \E w \in Workers : CallService(w)
    \/ \E w \in Workers : ListKeys(w)
    \/ \E w \in Workers : DelRead(w)
    \/ \E w \in Workers : DelCommit(w)
    \/ \E w \in Workers : DelPop(w)

Spec == Init /\ [][Next]_vars

NextBurst ==
    \/ \E w \in Workers : Start(w)
    \/ \E w \in Workers : Put(w)
    \/ \E w \in Workers : ReadUser(w)
    \/ \E w \in Workers : Commit(w)
    \/ \E w \in Workers : Lookup(w)
    \/ \E w \in Workers : CallService(w)

SpecBurst == InitBurst /\ [][NextBurst]_vars

----------------------------------------------------------------------------
(* Vocabulary of the properties *)

\* the key list of account u, as GET /user/api_keys would return it
KeysOf(u) == json_loads(users[u])

\* this step is a request's arrival, and it hit the limiter counter c
HitCell(c) ==
    /\ nreq' = nreq + 1
    /\ storage'[c].count > 0
    /\ storage'[c] # storage[c]

MinuteCell(addr, ep) == <<addr, ep, "minute">>

\* this step is thread w leaving program point p
Leaves(w, p) == req[w].pc = p /\ req'[w].pc # p

AllIdle == \A w \in Workers : req[w].pc = "idle"

----------------------------------------------------------------------------
(* C1 *)

\* this step is w's Put: the key is new, no entry is overwritten, and the
\* new entry holds the fetched text
PutIsFresh(w) ==
    Leaves(w, "put") /\ req'[w].pc = "read_user" =>
        /\ req'[w].key \notin DOMAIN putText
        /\ req'[w].key \notin DOMAIN extracted_texts
        /\ DOMAIN extracted_texts' = DOMAIN extracted_texts \cup {req'[w].key}
        /\ \A k \in DOMAIN extracted_texts : extracted_texts'[k] = extracted_texts[k]
        /\ extracted_texts'[req'[w].key] = extract_text_from_url(req[w].arg)

\* C1 as the spec states it: every ingestion's key differs from every key
\* returned before, the insertion overwrites nothing, and the lookup of a chat
\* request that started after the insertion returns the stored text.
C1_Original ==
    [][\A w \in Workers :
         /\ PutIsFresh(w)
         /\ (Leaves(w, "lookup") /\ req[w].late)
               => req'[w].ctx = putText[req[w].arg]]_vars

\* C1 amended: the lookup of a chat request that started after the insertion
\* returns the stored text as long as the key has not been deleted.
C1_PutThenGet ==
    [][\A w \in Workers :
         /\ PutIsFresh(w)
         /\ (Leaves(w, "lookup") /\ req[w].late /\ req[w].arg \notin DOMAIN deleted)
               => req'[w].ctx = putText[req[w].arg]]_vars

\* a chat request that started after the ingestion has looked its key up
\* and holds the stored text
C1_Witness ==
    \E w \in Workers :
        /\ req[w].pc = "call"
        /\ req[w].late
        /\ req[w].arg \in DOMAIN issued
        /\ req[w].ctx = putText[req[w].arg]

----------------------------------------------------------------------------
(* C2 *)

\* C2: with 5 calls recorded in the live minute window of an identity and a
\* protected route, the next call is rejected; a call that arrives when the
\* window's 60 seconds have passed is admitted; the window runs from its
\* first recorded call and later calls do not move its end.
C2_FixedWindow ==
    [][\A addr \in Addrs, ep \in Protected :
         LET c == MinuteCell(addr, ep)
         IN  HitCell(c) =>
               /\ (storage[c].count >= PerMinute /\ now' < storage[c].expiry)
                     => (out'.status = 429 /\ out'.op = ep)
               /\ (storage[c].count > 0 /\ now' >= storage[c].expiry)
                     => out'.status # 429
               /\ storage'[c].count = 1 => storage'[c].expiry = now' + MinuteSeconds
               /\ storage'[c].count > 1 => storage'[c].expiry = storage[c].expiry]_vars

\* an identity that was rejected on a route has, a minute after its window
\* began, just been admitted on that route again
C2_Witness ==
    \E addr \in Addrs, ep \in Protected :
        /\ <<addr, ep>> \in everDenied
        /\ now >= MinuteSeconds
        /\ storage[MinuteCell(addr, ep)] = [count |-> 1, expiry |-> now + MinuteSeconds]
        /\ out.status # 429

----------------------------------------------------------------------------
(* C3 *)

\* C3: a call beyond the ceiling is answered 429, and the step that answers
\* 429 starts no handler and leaves the dict, the key lists and the set of
\* allocated keys as they were.
C3_DeniedTouchesNothing ==
    [][/\ \A addr \in Addrs, ep \in Protected :
            (HitCell(MinuteCell(addr, ep)) /\ storage'[MinuteCell(addr, ep)].count > PerMinute)
               => (out'.status = 429 /\ out'.op = ep)
       /\ out'.status = 429
            => /\ req' = req
               /\ UNCHANGED <<extracted_texts, users, putText, issued, deleted>>]_vars

\* the sixth ingestion request of a minute has been rejected, after an
\* earlier one had allocated a key
C3_Witness ==
    /\ out.op = "process_url"
    /\ out.status = 429
    /\ \E addr \in Addrs : storage[MinuteCell(addr, "process_url")].count = PerMinute + 1
    /\ DOMAIN putText # {}

----------------------------------------------------------------------------
(* C8 *)

\* C8 as the spec states it: the admission of a call to a protected route
\* counts against the daily, the hourly and the per-minute ceiling.
C8_GlobalCeilings ==
    [][\A addr \in Addrs, ep \in Protected :
         (HitCell(MinuteCell(addr, ep)) /\ out'.status # 429) =>
            /\ storage'[<<addr, ep, "hour">>].count = storage[<<addr, ep, "hour">>].count + 1
            /\ storage'[<<addr, ep, "day">>].count = storage[<<addr, ep, "day">>].count + 1]_vars

----------------------------------------------------------------------------
(* C4 *)

\* C4: the lookup of a key that is not in the dict gives the placeholder and
\* goes on to the completion call; the request then ends with the service's
\* answer to the prompt that embeds the placeholder, or with the error of a
\* failed call, never with 404; neither step changes the dict.
C4_AbsentKeyDegrades ==
    [][\A w \in Workers :
         /\ (Leaves(w, "lookup") /\ req[w].arg \notin DOMAIN extracted_texts)
               => /\ req'[w].pc = "call"
                  /\ req'[w].ctx = Placeholder
                  /\ extracted_texts' = extracted_texts
         /\ (Leaves(w, "call") /\ req[w].ctx = Placeholder)
               => /\ out'.op = "chat"
                  /\ out'.status \in {200, 500, 503}
                  /\ out'.status = 200 => out'.body = <<Template, Placeholder>>
                  /\ extracted_texts' = extracted_texts]_vars

\* a chat with a key that was issued and then deleted has been answered from
\* the placeholder prompt
C4_Witness ==
    /\ out.op = "chat"
    /\ out.status = 200
    /\ out.arg \in DOMAIN deleted
    /\ out.arg \notin DOMAIN extracted_texts
    /\ out.body = <<Template, Placeholder>>

----------------------------------------------------------------------------
(* C5 *)

\* C5 as the spec states it: a key whose deletion was answered with success
\* is in neither the dict nor the key list of the account that deleted it.
C5_DeleteRemovesBoth ==
    \A k \in DOMAIN deleted :
        /\ k \notin DOMAIN extracted_texts
        /\ ~InList(KeysOf(deleted[k]), k)

----------------------------------------------------------------------------
(* C6 *)

\* C6 as the spec states it: a delete that arrives after the same account
\* was answered 200 for a deletion of the same key is answered "not removed"
\* (404) and changes neither the dict nor any key list.
C6_SecondDeleteIsNoOp ==
    [][\A w \in Workers :
         (Leaves(w, "del_read") /\ req[w].again)
            => /\ out'.status = 404
               /\ req'[w].pc = "idle"
               /\ UNCHANGED <<extracted_texts, users>>]_vars

----------------------------------------------------------------------------
(* C7 *)

\* the keys that were put but never returned by a successful ingestion
Orphans == DOMAIN putText \ DOMAIN issued

\* C7: a key list holds only keys that were put in the dict before; a commit
\* that fails ends the ingestion with 500, writes no key list and leaves the
\* entry in the dict; an entry whose key was never returned stays in the dict.
C7_AppendAfterPut ==
    /\ [](\A u \in UserIds : SeqToSet(KeysOf(u)) \subseteq DOMAIN putText)
    /\ [](\A k \in Orphans : k \in DOMAIN extracted_texts /\ extracted_texts[k] = putText[k])
    /\ [][\A w \in Workers :
            (Leaves(w, "commit") /\ out'.status # 200)
               => /\ out'.op = "process_url"
                  /\ out'.status = 500
                  /\ users' = users
                  /\ extracted_texts' = extracted_texts
                  /\ req[w].key \in DOMAIN extracted_texts'
                  /\ ~InList(json_loads(users'[req[w].sess]), req[w].key)]_vars

\* an ingestion has just ended with 500 after its Put, and its entry is in
\* the dict while no key list holds its key
C7_Witness ==
    /\ out.op = "process_url"
    /\ out.status = 500
    /\ ~FetchRaises(out.arg)
    /\ AllIdle
    /\ \E k \in Orphans :
          /\ k \in DOMAIN extracted_texts
          /\ \A u \in UserIds : ~InList(KeysOf(u), k)

----------------------------------------------------------------------------
(* C9 *)

\* C9: a delete of a key that is not in the session account's key list is
\* answered 404 and changes neither the dict nor any key list.
C9_NotOwnedIsRefused ==
    [][\A w \in Workers :
         (Leaves(w, "del_read") /\ ~InList(KeysOf(req[w].sess), req[w].arg))
            => /\ out'.op = "delete_api_key"
               /\ out'.status = 404
               /\ req'[w].pc = "idle"
               /\ UNCHANGED <<extracted_texts, users>>]_vars

\* an account has just been refused the deletion of a key that another
\* account owns, and the key's entry is still in the dict
C9_Witness ==
    /\ out.op = "delete_api_key"
    /\ out.status = 404
    /\ out.arg \in DOMAIN extracted_texts
    /\ \E u \in UserIds : u # out.sess /\ InList(KeysOf(u), out.arg)

----------------------------------------------------------------------------
(* C10 *)

\* C10 as the spec states it: when no request is in flight, every account's
\* key list holds exactly the keys that a successful ingestion returned to
\* it and that no successful deletion removed.
C10_NoLostUpdate ==
    AllIdle =>
        \A u \in UserIds :
            SeqToSet(KeysOf(u)) =
                {k \in DOMAIN issued : issued[k] = u /\ k \notin DOMAIN deleted}

====
